---- MODULE Spec2Model ----
(***************************************************************************)
(* Model of src/server.py: the FastAPI handler processar_documento         *)
(* (POST /notas/).  One request walks the handler's statements in order:   *)
(* read the upload, POST to Gemini, check the status, unwrap the answer,   *)
(* strip the markdown fence, json.loads, aggregate, build the sheets,      *)
(* write the .xlsx file, return.  Every statement sits inside the          *)
(* try/except of lines 90-201.                                             *)
(*                                                                         *)
(* Texts are sequences of tokens.  A token stands for a run of characters  *)
(* that the code never looks inside: the three backticks, the word json,   *)
(* a newline, the JSON punctuation, a number, and a whole JSON object      *)
(* (a student record).  Numbers with two decimals (the result of           *)
(* round(x, 2)) are kept as integers counting hundredths.                  *)
(***************************************************************************)
EXTENDS Integers, Sequences, FiniteSets, TLC

(***************************************************************************)
(* Bounds of the model.                                                    *)
(***************************************************************************)
NReq == 2            \* requests in flight
MaxClock == 2        \* last clock reading, in ticks
TicksPerSecond == 2  \* clock readings that fall in one second
MaxLen == 3          \* longest generated frequencias / notas list
MaxTokens == 4       \* longest generated JSON body, in tokens

Req == 1..NReq

(***************************************************************************)
(* Tokens and texts.                                                       *)
(***************************************************************************)
Tok(s) == [t |-> s]
Obj(d) == [t |-> "object", o |-> d]

TICKS == Tok("ticks")        \* three backticks
JSONWORD == Tok("json")
NL == Tok("nl")              \* a newline character
LBRACK == Tok("lbrack")
RBRACK == Tok("rbrack")
COMMA == Tok("comma")
QUOTE == Tok("quote")
ZERO == Tok("zero")

\* the two literals of line 164
FencePrefix == <<TICKS, JSONWORD, NL>>
FenceSuffix == <<NL, TICKS>>

IsWs(tok) == tok = NL

(***************************************************************************)
(* str.replace(old, ""): every non-overlapping occurrence of old, found    *)
(* scanning from the left, is removed.                                     *)
(***************************************************************************)
RECURSIVE ReplaceFrom(_, _, _)
ReplaceFrom(s, old, i) ==
    IF i > Len(s) THEN <<>>
    ELSE IF i + Len(old) - 1 <= Len(s) /\ SubSeq(s, i, i + Len(old) - 1) = old
         THEN ReplaceFrom(s, old, i + Len(old))
         ELSE <<s[i]>> \o ReplaceFrom(s, old, i + 1)

Replace(s, old) == ReplaceFrom(s, old, 1)

\* a variant that removes only the opening marker
StripPrefixOnly(campos) == Replace(campos, FencePrefix)

\* a variant that removes every fence piece, however it is laid out
StripAnyFence(campos) ==
    SelectSeq(campos, LAMBDA tok : tok \notin {TICKS, JSONWORD})

\* line 164: the opening marker is removed, then the closing marker
Strip(campos) == Replace(Replace(campos, FencePrefix), FenceSuffix)

(***************************************************************************)
(* json.loads on a token text.  Values: list, dict, str, int.  A raw       *)
(* newline inside a string literal is rejected (json.loads is strict).     *)
(***************************************************************************)
Falha == [ok |-> FALSE]
JList(items) == [k |-> "list", v |-> items]
JDict(d) == [k |-> "dict", v |-> d]
JStr(s) == [k |-> "str", v |-> s]
JInt(n) == [k |-> "int", v |-> n]

RECURSIVE SkipWs(_, _)
SkipWs(s, i) ==
    IF i <= Len(s) /\ IsWs(s[i]) THEN SkipWs(s, i + 1) ELSE i

RECURSIVE CloseQuote(_, _)
\* position of the first quote at or after i, 0 when there is none
CloseQuote(s, i) ==
    IF i > Len(s) THEN 0
    ELSE IF s[i] = QUOTE THEN i ELSE CloseQuote(s, i + 1)

\* the string literal whose opening quote is at i - 1
ScanString(s, i) ==
    LET j == CloseQuote(s, i) IN
    IF j = 0 THEN Falha
    ELSE IF \E n \in i..(j - 1) : s[n] = NL THEN Falha
    ELSE [ok |-> TRUE, val |-> JStr(SubSeq(s, i, j - 1)), next |-> j + 1]

RECURSIVE ParseValue(_, _)
RECURSIVE ParseItems(_, _, _)

\* the elements of an array, the first of them starting at i
ParseItems(s, i, acc) ==
    LET v == ParseValue(s, i) IN
    IF ~v.ok THEN Falha
    ELSE LET j == SkipWs(s, v.next) IN
         IF j > Len(s) THEN Falha
         ELSE IF s[j] = COMMA
              THEN ParseItems(s, SkipWs(s, j + 1), Append(acc, v.val))
         ELSE IF s[j] = RBRACK
              THEN [ok |-> TRUE, val |-> JList(Append(acc, v.val)), next |-> j + 1]
         ELSE Falha

\* the array whose opening bracket is at i - 1
ParseArray(s, i) ==
    LET j == SkipWs(s, i) IN
    IF j > Len(s) THEN Falha
    ELSE IF s[j] = RBRACK THEN [ok |-> TRUE, val |-> JList(<<>>), next |-> j + 1]
    ELSE ParseItems(s, j, <<>>)

ParseValue(s, i) ==
    IF i > Len(s) THEN Falha
    ELSE IF s[i] = LBRACK THEN ParseArray(s, i + 1)
    ELSE IF s[i] = QUOTE THEN ScanString(s, i + 1)
    ELSE IF s[i] = ZERO THEN [ok |-> TRUE, val |-> JInt(0), next |-> i + 1]
    ELSE IF s[i].t = "object" THEN [ok |-> TRUE, val |-> JDict(s[i].o), next |-> i + 1]
    ELSE Falha

\* json.loads(s): one value, surrounded by optional whitespace
Loads(s) ==
    LET v == ParseValue(s, SkipWs(s, 1)) IN
    IF v.ok /\ SkipWs(s, v.next) > Len(s) THEN [ok |-> TRUE, val |-> v.val]
    ELSE Falha

(***************************************************************************)
(* The aggregator, lines 170-177.                                          *)
(***************************************************************************)
RECURSIVE Sum(_)
Sum(seq) == IF seq = <<>> THEN 0 ELSE Head(seq) + Sum(Tail(seq))

\* a variant that cuts the quotient after the second decimal
Round2Trunc(n, d) == (100 * n) \div d

\* round(n / d, 2), in hundredths.  A quotient half way between two
\* hundredths needs a denominator that is a multiple of 8, and Python then
\* rounds the binary fraction nearest to it, to the even hundredth when
\* that fraction is exact.
Round2(n, d) ==
    LET q == (100 * n) \div d
        rem == 100 * n - q * d
    IN  IF 2 * rem < d THEN q
        ELSE IF 2 * rem > d THEN q + 1
        ELSE IF q % 2 = 0 THEN q ELSE q + 1

NoExc == ""
Ok(x) == [exc |-> NoExc, val |-> x]
Raised(e) == [exc |-> e]

\* line 174
MediaFrequencia(aluno) ==
    IF Sum(aluno.frequencias) # 0
    THEN Round2(Sum(aluno.frequencias), Len(aluno.frequencias))
    ELSE 0

\* a variant whose grade mean is guarded by the grades' own sum
MediaNotasOwnGuard(aluno) ==
    IF "notas" \notin DOMAIN aluno THEN Raised("KeyError")
    ELSE IF Sum(aluno.notas) = 0 THEN Ok(0)
    ELSE Ok(Round2(Sum(aluno.notas), Len(aluno.notas)))

\* line 175: the condition is evaluated first, so notas is read only when
\* the frequencias sum is not zero
MediaNotas(aluno) ==
    IF Sum(aluno.frequencias) = 0 THEN Ok(0)
    ELSE IF "notas" \notin DOMAIN aluno THEN Raised("KeyError")
    ELSE IF Len(aluno.notas) = 0 THEN Raised("ZeroDivisionError")
    ELSE Ok(Round2(Sum(aluno.notas), Len(aluno.notas)))

\* lines 172-176: the summary of one element of campos_formatados
Resumo(aluno) ==
    IF aluno.k # "dict" THEN Raised("TypeError")
    ELSE IF "nome_aluno" \notin DOMAIN aluno.v THEN Raised("KeyError")
    ELSE IF "frequencias" \notin DOMAIN aluno.v THEN Raised("KeyError")
    ELSE LET mn == MediaNotas(aluno.v) IN
         IF mn.exc # NoExc THEN mn
         ELSE Ok([nome |-> aluno.v.nome_aluno,
                  media_frequencia |-> MediaFrequencia(aluno.v),
                  media_notas |-> mn.val])

\* what "for aluno in campos_formatados" iterates over: the items of a
\* list, the keys of a dict, the characters of a str; an int is not iterable
Elementos(cf) ==
    IF cf.k = "list" THEN Ok(cf.v)
    ELSE IF cf.k = "dict"
         THEN Ok([i \in 1..Cardinality(DOMAIN cf.v) |-> JStr(<<>>)])
    ELSE IF cf.k = "str" THEN Ok([i \in 1..Len(cf.v) |-> JStr(<<cf.v[i]>>)])
    ELSE Raised("TypeError")

RECURSIVE AppendAll(_, _)
\* the loop of lines 170-177 over elems, from the payload built so far
AppendAll(elems, payload) ==
    IF elems = <<>> THEN Ok(payload)
    ELSE LET res == Resumo(Head(elems)) IN
         IF res.exc # NoExc THEN res
         ELSE AppendAll(Tail(elems), Append(payload, res.val))

RECURSIVE AppendAllSkipping(_, _)
\* a variant of the loop that leaves out the records it cannot summarise
AppendAllSkipping(elems, payload) ==
    IF elems = <<>> THEN Ok(payload)
    ELSE LET res == Resumo(Head(elems)) IN
         IF res.exc # NoExc THEN AppendAllSkipping(Tail(elems), payload)
         ELSE AppendAllSkipping(Tail(elems), Append(payload, res.val))

\* a variant of the loop that leaves out the students with no attendance
AppendAllAttending(elems, payload) ==
    AppendAll(SelectSeq(elems, LAMBDA a :
                  ~(a.k = "dict" /\ "frequencias" \in DOMAIN a.v
                    /\ Sum(a.v.frequencias) = 0)), payload)

\* a variant that hands the loop's failure over as an empty payload
PayloadSkipping(cf) ==
    LET es == Elementos(cf) IN
    IF es.exc # NoExc THEN es ELSE AppendAllSkipping(es.val, <<>>)

PayloadAttending(cf) ==
    LET es == Elementos(cf) IN
    IF es.exc # NoExc THEN es ELSE AppendAllAttending(es.val, <<>>)

\* lines 168-177: retorno["payload"] for the parsed value cf
Payload(cf) ==
    LET es == Elementos(cf) IN
    IF es.exc # NoExc THEN es ELSE AppendAll(es.val, <<>>)

(***************************************************************************)
(* What the outside world can hand to the handler.                         *)
(***************************************************************************)
Valores == {0, 1, 50}

Listas == UNION {[1..n -> Valores] : n \in 0..MaxLen}

\* the two students of the docstring, lines 56-87
JoseRuela ==
    [nome_aluno |-> "Jose Ruela",
     frequencias |-> <<96, 95, 90, 100, 100, 100, 100>>,
     notas |-> <<85, 89, 89, 80, 60, 85, 86>>]
JoaoNinguem ==
    [nome_aluno |-> "Joao Ninguem", frequencias |-> <<0>>, notas |-> <<0>>]

\* student objects: every pair of generated lists, the same without the
\* notas key, and a few written out
Alunos ==
    {[nome_aluno |-> "a", frequencias |-> f, notas |-> n] : f \in Listas, n \in Listas}
    \cup {[nome_aluno |-> "a", frequencias |-> f] : f \in Listas}
    \cup {JoseRuela, JoaoNinguem,
          [nome_aluno |-> "b", frequencias |-> <<-1, 1>>, notas |-> <<50>>],
          [frequencias |-> <<1>>, notas |-> <<1>>],
          [nome_aluno |-> "b", notas |-> <<1>>]}

Fenced(j) == FencePrefix \o j \o FenceSuffix

\* a JSON array text of the objects in seq
RECURSIVE Joined(_)
Joined(seq) ==
    IF seq = <<>> THEN <<>>
    ELSE IF Len(seq) = 1 THEN <<Obj(seq[1])>>
    ELSE <<Obj(seq[1]), COMMA>> \o Joined(Tail(seq))
ArrayText(seq) == <<LBRACK>> \o Joined(seq) \o <<RBRACK>>

Alphabet == {TICKS, JSONWORD, NL, LBRACK, RBRACK, QUOTE, ZERO, Obj(JoaoNinguem)}

\* every token text of at most MaxTokens tokens
Bodies == UNION {[1..n -> Alphabet] : n \in 0..MaxTokens}

\* fences laid out otherwise than lines 164 expects
OtherFences(j) ==
    {<<TICKS, JSONWORD>> \o j \o FenceSuffix,
     <<TICKS, NL>> \o j \o FenceSuffix,
     FencePrefix \o j \o <<TICKS>>,
     <<TICKS, JSONWORD>> \o j \o <<TICKS>>}

Gemini(texto) == [forma |-> "gemini", texto |-> texto]
Html == [forma |-> "html", texto |-> <<>>]
SemCandidates == [forma |-> "sem_candidates", texto |-> <<>>]
CandidatesVazio == [forma |-> "candidates_vazio", texto |-> <<>>]

Resposta(status, corpo) == [status_code |-> status, text |-> corpo]

Docstring == <<JoseRuela, JoaoNinguem>>

\* the answers one request of the exhaustive run can get
TextosTodos ==
    Bodies
    \cup {Fenced(j) : j \in Bodies}
    \cup {ArrayText(<<a>>) : a \in Alunos}
    \cup {Fenced(ArrayText(<<a>>)) : a \in Alunos}
    \cup {Fenced(ArrayText(Docstring)), ArrayText(Docstring)}
    \cup {Fenced(ArrayText(<<JoseRuela, [nome_aluno |-> "a", frequencias |-> <<1>>, notas |-> <<>>]>>))}
    \cup OtherFences(ArrayText(Docstring))

RespostasTodas ==
    {Resposta(200, Gemini(t)) : t \in TextosTodos}
    \cup {Resposta(200, c) : c \in {Html, SemCandidates, CandidatesVazio}}
    \cup {Resposta(st, c) : st \in {204, 429, 500},
                             c \in {Html, Gemini(Fenced(ArrayText(Docstring)))}}

\* the answers the requests of the concurrent run can get
RespostasCuradas ==
    {Resposta(200, Gemini(Fenced(ArrayText(Docstring)))),
     Resposta(200, Gemini(Fenced(ArrayText(<<JoaoNinguem>>)))),
     Resposta(200, Gemini(Fenced(ArrayText(<<[nome_aluno |-> "a", frequencias |-> <<1>>, notas |-> <<>>]>>)))),
     Resposta(200, Gemini(<<TICKS, JSONWORD>> \o ArrayText(Docstring) \o <<TICKS>>)),
     Resposta(200, SemCandidates),
     Resposta(429, Html)}

(***************************************************************************)
(* State.                                                                  *)
(***************************************************************************)
VARIABLES
    ENDPOINT_GEMINI,    \* line 30: "" when the environment does not set it
    relogio,            \* the wall clock, in ticks
    arquivos,           \* the files under /app: name -> sheets
    escritas,           \* history: the completed writes, in order
    pc,                 \* per request: the statement it is about to run
    resposta,           \* line 146
    campos,             \* line 161
    campos_formatados,  \* line 163
    retorno,            \* line 168
    agora,              \* line 186: what datetime.now() gave
    nome_arquivo,       \* line 186
    exc,                \* the exception in flight, NoExc when none
    chamadas,           \* history: the POSTs the request has made
    rodou,              \* history: the statements the request has run
    resp                \* the HTTP response the caller got

locais == <<resposta, campos, campos_formatados, retorno, agora, nome_arquivo>>
vars == <<ENDPOINT_GEMINI, relogio, arquivos, escritas, pc, resposta, campos,
          campos_formatados, retorno, agora, nome_arquivo, exc, chamadas, rodou, resp>>

Unset == <<>>
SemResposta == [status_code |-> 0, content |-> Unset]

Init ==
    /\ ENDPOINT_GEMINI \in {"", "url"}
    /\ relogio = 0
    /\ arquivos = <<>>
    /\ escritas = <<>>
    /\ pc = [r \in Req |-> "inicio"]
    /\ resposta = [r \in Req |-> Unset]
    /\ campos = [r \in Req |-> Unset]
    /\ campos_formatados = [r \in Req |-> Unset]
    /\ retorno = [r \in Req |-> Unset]
    /\ agora = [r \in Req |-> 0]
    /\ nome_arquivo = [r \in Req |-> Unset]
    /\ exc = [r \in Req |-> NoExc]
    /\ chamadas = [r \in Req |-> 0]
    /\ rodou = [r \in Req |-> {}]
    /\ resp = [r \in Req |-> SemResposta]

\* the statement at pc[r] has run; control moves to label
Goto(r, label) ==
    /\ pc' = [pc EXCEPT ![r] = label]
    /\ rodou' = [rodou EXCEPT ![r] = @ \cup {pc[r]}]

\* an exception raised inside the try block: control moves to line 200
Raise(r, e) ==
    /\ Goto(r, "except")
    /\ exc' = [exc EXCEPT ![r] = e]

\* line 153
ErroGemini == "Erro ao processar imagem no Gemini"

JSONResponse(status, content) == [status_code |-> status, content |-> content]

\* lines 92-143: read the upload, encode it, build headers and payload
LerArquivo(r) ==
    /\ pc[r] = "inicio"
    /\ \/ Goto(r, "post") /\ UNCHANGED exc
       \/ Raise(r, "IOError")
    /\ UNCHANGED <<ENDPOINT_GEMINI, relogio, arquivos, escritas, locais, chamadas, resp>>

\* line 146: requests.post; without an endpoint it raises before sending
Post(r, respostas) ==
    /\ pc[r] = "post"
    /\ IF ENDPOINT_GEMINI = ""
       THEN Raise(r, "MissingSchema") /\ UNCHANGED <<resposta, chamadas>>
       ELSE /\ chamadas' = [chamadas EXCEPT ![r] = @ + 1]
            /\ \/ Raise(r, "ConnectionError") /\ UNCHANGED resposta
               \/ \E re \in respostas :
                     /\ resposta' = [resposta EXCEPT ![r] = re]
                     /\ Goto(r, "status")
                     /\ UNCHANGED exc
    /\ UNCHANGED <<ENDPOINT_GEMINI, relogio, arquivos, escritas, campos,
                   campos_formatados, retorno, agora, nome_arquivo, resp>>

\* a variant of the status check that lets every 2xx answer through
VerificaStatus2xx(r) ==
    /\ pc[r] = "status"
    /\ IF resposta[r].status_code \notin 200..299
       THEN /\ resp' = [resp EXCEPT ![r] = JSONResponse(500,
                           [erro |-> ErroGemini,
                            detalhe |-> resposta[r].text])]
            /\ Goto(r, "done")
       ELSE Goto(r, "extrai") /\ UNCHANGED resp
    /\ UNCHANGED <<ENDPOINT_GEMINI, relogio, arquivos, escritas, locais, exc, chamadas>>

\* lines 149-156
VerificaStatus(r) ==
    /\ pc[r] = "status"
    /\ IF resposta[r].status_code # 200
       THEN /\ resp' = [resp EXCEPT ![r] = JSONResponse(500,
                           [erro |-> ErroGemini,
                            detalhe |-> resposta[r].text])]
            /\ Goto(r, "done")
       ELSE Goto(r, "extrai") /\ UNCHANGED resp
    /\ UNCHANGED <<ENDPOINT_GEMINI, relogio, arquivos, escritas, locais, exc, chamadas>>

\* lines 159-161: resposta.json() and the path candidates[0].content.parts[0].text
ExtraiCampos(r) ==
    /\ pc[r] = "extrai"
    /\ LET corpo == resposta[r].text IN
       IF corpo.forma = "html"
       THEN Raise(r, "JSONDecodeError") /\ UNCHANGED campos
       ELSE IF corpo.forma = "sem_candidates"
       THEN Raise(r, "KeyError") /\ UNCHANGED campos
       ELSE IF corpo.forma = "candidates_vazio"
       THEN Raise(r, "IndexError") /\ UNCHANGED campos
       ELSE /\ campos' = [campos EXCEPT ![r] = corpo.texto]
            /\ Goto(r, "formata")
            /\ UNCHANGED exc
    /\ UNCHANGED <<ENDPOINT_GEMINI, relogio, arquivos, escritas, resposta,
                   campos_formatados, retorno, agora, nome_arquivo, chamadas, resp>>

\* lines 163-165: strip the fence markers, then json.loads
Formata(r) ==
    /\ pc[r] = "formata"
    /\ LET v == Loads(Strip(campos[r])) IN
       IF ~v.ok
       THEN Raise(r, "JSONDecodeError") /\ UNCHANGED campos_formatados
       ELSE /\ campos_formatados' = [campos_formatados EXCEPT ![r] = v.val]
            /\ Goto(r, "agrega")
            /\ UNCHANGED exc
    /\ UNCHANGED <<ENDPOINT_GEMINI, relogio, arquivos, escritas, resposta, campos,
                   retorno, agora, nome_arquivo, chamadas, resp>>

\* lines 168-177: the envelope and the loop that fills its payload
Agrega(r) ==
    /\ pc[r] = "agrega"
    /\ LET p == Payload(campos_formatados[r]) IN
       IF p.exc # NoExc
       THEN Raise(r, p.exc) /\ UNCHANGED retorno
       ELSE /\ retorno' = [retorno EXCEPT ![r] =
                              [payload |-> p.val,
                               dados_brutos |-> campos_formatados[r]]]
            /\ Goto(r, "planilha")
            /\ UNCHANGED exc
    /\ UNCHANGED <<ENDPOINT_GEMINI, relogio, arquivos, escritas, resposta, campos,
                   campos_formatados, agora, nome_arquivo, chamadas, resp>>

\* a variant of the file name that keeps the fraction of the second
NomeArquivoFino(t) ==
    <<"notas_alunos_", t \div TicksPerSecond, t % TicksPerSecond, ".xlsx">>

\* line 186: strftime('%Y%m%d_%H%M%S') drops the fraction of the second
NomeArquivo(t) == <<"notas_alunos_", t \div TicksPerSecond, ".xlsx">>

\* lines 180-189: the two DataFrames (pandas refuses a bare string), the
\* clock reading and the file name
MontaPlanilha(r) ==
    /\ pc[r] = "planilha"
    /\ IF retorno[r].dados_brutos.k = "str"
       THEN Raise(r, "ValueError") /\ UNCHANGED <<agora, nome_arquivo>>
       ELSE /\ agora' = [agora EXCEPT ![r] = relogio]
            /\ nome_arquivo' = [nome_arquivo EXCEPT ![r] = NomeArquivo(relogio)]
            /\ Goto(r, "escreve")
            /\ UNCHANGED exc
    /\ UNCHANGED <<ENDPOINT_GEMINI, relogio, arquivos, escritas, resposta, campos,
                   campos_formatados, retorno, chamadas, resp>>

Planilha(r) == [Resumo |-> retorno[r].payload, Detalhado |-> retorno[r].dados_brutos]

Gravada(r) == \E i \in 1..Len(escritas) : escritas[i].req = r

\* a variant of the write that carries on when the file cannot be written
EscreveIgnorandoErro(r) ==
    /\ pc[r] = "escreve"
    /\ \/ /\ arquivos' = (nome_arquivo[r] :> Planilha(r)) @@ arquivos
          /\ escritas' = Append(escritas, [req |-> r, nome |-> nome_arquivo[r]])
       \/ UNCHANGED <<arquivos, escritas>>
    /\ Goto(r, "retorna")
    /\ UNCHANGED <<ENDPOINT_GEMINI, relogio, locais, exc, chamadas, resp>>

\* lines 192-194: the file is created or replaced, whatever it held; when
\* it cannot be opened the write raises and the directory stays as it was
Escreve(r) ==
    /\ pc[r] = "escreve"
    /\ \/ /\ arquivos' = (nome_arquivo[r] :> Planilha(r)) @@ arquivos
          /\ escritas' = Append(escritas, [req |-> r, nome |-> nome_arquivo[r]])
          /\ Goto(r, "retorna")
          /\ UNCHANGED exc
       \/ Raise(r, "OSError") /\ UNCHANGED <<arquivos, escritas>>
    /\ UNCHANGED <<ENDPOINT_GEMINI, relogio, locais, chamadas, resp>>

\* lines 196-198
Retorna(r) ==
    /\ pc[r] = "retorna"
    /\ resp' = [resp EXCEPT ![r] = JSONResponse(200, retorno[r])]
    /\ Goto(r, "done")
    /\ UNCHANGED <<ENDPOINT_GEMINI, relogio, arquivos, escritas, locais, exc, chamadas>>

\* a variant of the handler that catches ValueError alone
ExceptValueError(r) ==
    /\ pc[r] = "except"
    /\ IF exc[r] \in {"ValueError", "JSONDecodeError"}
       THEN /\ resp' = [resp EXCEPT ![r] = JSONResponse(500, [Erro |-> exc[r]])]
            /\ Goto(r, "done")
       ELSE Goto(r, "escaped") /\ UNCHANGED resp
    /\ UNCHANGED <<ENDPOINT_GEMINI, relogio, arquivos, escritas, locais, exc, chamadas>>

\* lines 200-201: except Exception as e
Except(r) ==
    /\ pc[r] = "except"
    /\ resp' = [resp EXCEPT ![r] = JSONResponse(500, [Erro |-> exc[r]])]
    /\ Goto(r, "done")
    /\ UNCHANGED <<ENDPOINT_GEMINI, relogio, arquivos, escritas, locais, exc, chamadas>>

\* time passes
Tick ==
    /\ relogio < MaxClock
    /\ relogio' = relogio + 1
    /\ UNCHANGED <<ENDPOINT_GEMINI, arquivos, escritas, pc, locais, exc, chamadas, rodou, resp>>

\* one statement of request r, the external service answering from respostas
Passo(r, respostas) ==
    \/ LerArquivo(r)
    \/ Post(r, respostas)
    \/ VerificaStatus(r)
    \/ ExtraiCampos(r)
    \/ Formata(r)
    \/ Agrega(r)
    \/ MontaPlanilha(r)
    \/ Escreve(r)
    \/ Retorna(r)
    \/ Except(r)

\* Requests in flight together.  Inside one event loop a request yields
\* only at the await of line 92; with several worker processes over the
\* same /app every statement of one request can fall between two
\* statements of another, which is what Next allows.
Next == Tick \/ \E r \in Req : Passo(r, RespostasCuradas)

Spec == Init /\ [][Next]_vars

\* one request alone, against every answer of the bounded universe; the
\* clock stands still, no other request being there to share a second with
NextUm == Passo(1, RespostasTodas)

SpecUm == Init /\ [][NextUm]_vars

(***************************************************************************)
(* Vocabulary of the properties.                                           *)
(***************************************************************************)
\* old occurs in s
Contains(s, old) ==
    \E i \in 1..Len(s) :
        i + Len(old) - 1 <= Len(s) /\ SubSeq(s, i, i + Len(old) - 1) = old

\* the aggregator has run over a parsed list (to its end or to an exception)
AgregouLista(r) ==
    /\ "agrega" \in rodou[r]
    /\ campos_formatados[r].k = "list"

Registro(a) ==
    /\ a.k = "dict"
    /\ {"nome_aluno", "frequencias"} \subseteq DOMAIN a.v

SomaZero(a) == Registro(a) /\ Sum(a.v.frequencias) = 0

Completo(a) ==
    /\ Registro(a)
    /\ Sum(a.v.frequencias) # 0
    /\ "notas" \in DOMAIN a.v
    /\ Len(a.v.notas) > 0

\* c hundredths is a hundredth nearest to n / d
Nearest(c, n, d) ==
    LET diff == 100 * n - c * d IN
    2 * (IF diff < 0 THEN -diff ELSE diff) <= d

Erro500(r, e) == resp[r] = JSONResponse(500, [Erro |-> e])

IsFenced(t) ==
    /\ Len(t) >= Len(FencePrefix) + Len(FenceSuffix)
    /\ SubSeq(t, 1, Len(FencePrefix)) = FencePrefix
    /\ SubSeq(t, Len(t) - Len(FenceSuffix) + 1, Len(t)) = FenceSuffix

Inner(t) == SubSeq(t, Len(FencePrefix) + 1, Len(t) - Len(FenceSuffix))

SemMarcadores(t) == ~Contains(t, FencePrefix) /\ ~Contains(t, FenceSuffix)

\* the json.loads of line 163 failed and the handler reported it
FalhouNoParse(r) ==
    /\ campos_formatados[r] = Unset
    /\ exc[r] = "JSONDecodeError"
    /\ "agrega" \notin rodou[r]
    /\ pc[r] \in {"except", "done"}
    /\ pc[r] = "done" => Erro500(r, "JSONDecodeError")

\* the request whose write of a file is the last one recorded
UltimaEscrita(nome) ==
    LET is == {i \in 1..Len(escritas) : escritas[i].nome = nome}
        ult == CHOOSE i \in is : \A j \in is : j <= i
    IN  escritas[ult].req

(***************************************************************************)
(* C1: a record whose frequencias sum to zero gets media_frequencia 0 and  *)
(* media_notas 0 whatever its notas hold (also when frequencias is empty   *)
(* or notas is missing), and a list of such records never makes the        *)
(* aggregator raise.                                                       *)
(***************************************************************************)
C1_SomaZeroMediasZero ==
    \A r \in Req :
        AgregouLista(r) =>
            LET alunos == campos_formatados[r].v IN
            /\ (\A i \in 1..Len(alunos) : SomaZero(alunos[i])) => retorno[r] # Unset
            /\ retorno[r] # Unset =>
                   \A i \in 1..Len(alunos) :
                       SomaZero(alunos[i]) =>
                           /\ retorno[r].payload[i].media_frequencia = 0
                           /\ retorno[r].payload[i].media_notas = 0

C1_Witness ==
    \E r \in Req :
        /\ AgregouLista(r)
        /\ retorno[r] # Unset
        /\ Len(campos_formatados[r].v) = 1
        /\ campos_formatados[r].v[1].v.frequencias = <<0>>
        /\ "notas" \in DOMAIN campos_formatados[r].v[1].v
        /\ campos_formatados[r].v[1].v.notas = <<50>>
        /\ retorno[r].payload[1].media_notas = 0

C3_Nao200 ==
    \A r \in Req :
        ("status" \in rodou[r] /\ resposta[r].status_code # 200) =>
            /\ pc[r] = "done"
            /\ resp[r].status_code = 500
            /\ DOMAIN resp[r].content = {"erro", "detalhe"}
            /\ resp[r].content.erro = ErroGemini
            /\ resp[r].content.detalhe = resposta[r].text
            /\ chamadas[r] = 1
            /\ rodou[r] = {"inicio", "post", "status"}
            /\ campos_formatados[r] = Unset
            /\ retorno[r] = Unset
            /\ ~Gravada(r)

C3_Witness ==
    \E r \in Req :
        /\ pc[r] = "done"
        /\ resposta[r] # Unset
        /\ resposta[r].status_code = 204
        /\ resp[r].status_code = 500

(***************************************************************************)
(* C4: an exception raised by any statement of the handler ends the        *)
(* request with status 500 and the one-field object {Erro: message}; no    *)
(* exception leaves the handler, and a response once given is the          *)
(* request's only one.                                                     *)
(***************************************************************************)
C4_TodaExcecaoTratada ==
    [][\A r \in Req :
          /\ pc'[r] # "escaped"
          /\ (pc[r] = "except" /\ pc'[r] # "except") =>
                 /\ pc'[r] = "done"
                 /\ resp'[r].status_code = 500
                 /\ DOMAIN resp'[r].content = {"Erro"}
                 /\ resp'[r].content.Erro = exc[r]
          /\ (pc[r] # "except" /\ pc'[r] = "except") => exc'[r] # NoExc
          /\ pc[r] = "done" => (pc'[r] = "done" /\ resp'[r] = resp[r])
          /\ pc'[r] = "done" => resp'[r].status_code \in {200, 500}
          /\ pc'[r] # "done" => resp'[r] = SemResposta]_vars

C4_Witness ==
    \E r \in Req :
        /\ pc[r] = "done"
        /\ rodou[r] = {"inicio", "post", "status", "extrai", "formata", "agrega", "except"}
        /\ Erro500(r, "ZeroDivisionError")

(***************************************************************************)
(* C5: for a valid JSON text J, the fenced text prefix + J + suffix is     *)
(* stripped back to J and parses to the value J parses to.                 *)
(***************************************************************************)
C5_FenceRoundTrip ==
    \A r \in Req :
        ("formata" \in rodou[r] /\ IsFenced(campos[r])
            /\ Loads(Inner(campos[r])).ok) =>
            /\ Strip(campos[r]) = Inner(campos[r])
            /\ campos_formatados[r] = Loads(Inner(campos[r])).val

C5_Witness ==
    \E r \in Req :
        /\ "formata" \in rodou[r]
        /\ campos[r] = Fenced(<<QUOTE, TICKS, JSONWORD, QUOTE>>)
        /\ campos_formatados[r] = JStr(<<TICKS, JSONWORD>>)

(***************************************************************************)
(* C6, as claimed: every text holding neither marker is left unchanged by  *)
(* the stripping and then fails json.loads, ending in the handled 500.     *)
(***************************************************************************)
C6_Original ==
    \A r \in Req :
        ("formata" \in rodou[r] /\ SemMarcadores(campos[r])) =>
            /\ Strip(campos[r]) = campos[r]
            /\ FalhouNoParse(r)

(***************************************************************************)
(* C6, amended: a text holding neither marker reaches json.loads           *)
(* unchanged; it fails there, ending in the handled 500, when it is not    *)
(* valid JSON, which is the case of every text that opens with backticks   *)
(* (a fence laid out otherwise); when it is valid JSON it is parsed.       *)
(***************************************************************************)
C6_SemMarcadores ==
    \A r \in Req :
        ("formata" \in rodou[r] /\ SemMarcadores(campos[r])) =>
            /\ Strip(campos[r]) = campos[r]
            /\ (campos[r] # <<>> /\ Head(campos[r]) = TICKS) => FalhouNoParse(r)
            /\ ~Loads(campos[r]).ok => FalhouNoParse(r)
            /\ Loads(campos[r]).ok => campos_formatados[r] = Loads(campos[r]).val

C6_Witness ==
    \E r \in Req :
        /\ pc[r] = "done"
        /\ campos[r] = <<TICKS, JSONWORD>> \o ArrayText(Docstring) \o <<TICKS>>
        /\ FalhouNoParse(r)

C8_Envelope ==
    \A r \in Req :
        resp[r].status_code = 200 =>
            LET env == resp[r].content IN
            /\ DOMAIN env = {"payload", "dados_brutos"}
            /\ env.dados_brutos = Loads(Strip(campos[r])).val
            /\ env.dados_brutos = campos_formatados[r]
            /\ env.dados_brutos.k \in {"list", "dict"}
            /\ env.dados_brutos.k = "dict" =>
                   (env.dados_brutos.v = <<>> /\ env.payload = <<>>)
            /\ env.dados_brutos.k = "list" =>
                   /\ Len(env.payload) = Len(env.dados_brutos.v)
                   /\ \A i \in 1..Len(env.payload) :
                          /\ DOMAIN env.payload[i] =
                                 {"nome", "media_frequencia", "media_notas"}
                          /\ env.payload[i].nome = env.dados_brutos.v[i].v.nome_aluno

C8_Witness ==
    \E r \in Req :
        /\ resp[r].status_code = 200
        /\ Len(resp[r].content.payload) = 2
        /\ resp[r].content.payload[2].nome = "Joao Ninguem"

(***************************************************************************)
(* C9: a success response is given only by a request whose file write has  *)
(* completed; a request whose write fails answers 500 with the one-field   *)
(* error object and not with the payload it had computed.                  *)
(***************************************************************************)
C9_SucessoSoAposEscrita ==
    \A r \in Req :
        /\ (pc[r] = "retorna" \/ resp[r].status_code = 200) =>
               /\ Gravada(r)
               /\ \E i \in 1..Len(escritas) :
                      escritas[i] = [req |-> r, nome |-> nome_arquivo[r]]
        /\ ("escreve" \in rodou[r] /\ ~Gravada(r)) =>
               /\ retorno[r] # Unset
               /\ exc[r] = "OSError"
               /\ pc[r] \in {"except", "done"}
               /\ pc[r] = "done" => Erro500(r, "OSError")

C9_Witness ==
    \E r \in Req :
        /\ pc[r] = "done"
        /\ "escreve" \in rodou[r]
        /\ ~Gravada(r)
        /\ Len(retorno[r].payload) = 2
        /\ Erro500(r, "OSError")

(***************************************************************************)
(* C10: a request that fails before the exporter (non-200 status, missing  *)
(* path, parse failure, or one record the aggregator cannot summarise)     *)
(* writes no file and answers without a payload; one failing record fails  *)
(* the whole request.                                                      *)
(***************************************************************************)
C10_FalhaSemArquivo ==
    \A r \in Req :
        /\ (pc[r] \in {"except", "done"} /\ "planilha" \notin rodou[r]) =>
               /\ ~Gravada(r)
               /\ resp[r].status_code # 200
               /\ "payload" \notin DOMAIN resp[r].content
        /\ (AgregouLista(r) /\ \E i \in 1..Len(campos_formatados[r].v) :
                                   Resumo(campos_formatados[r].v[i]).exc # NoExc) =>
               /\ pc[r] \in {"except", "done"}
               /\ "planilha" \notin rodou[r]
               /\ retorno[r] = Unset
               /\ pc[r] = "done" => resp[r].status_code = 500

C10_Witness ==
    \E r \in Req :
        /\ pc[r] = "done"
        /\ AgregouLista(r)
        /\ Len(campos_formatados[r].v) = 2
        /\ Completo(campos_formatados[r].v[1])
        /\ Erro500(r, "ZeroDivisionError")
        /\ ~Gravada(r)
====
